---- MODULE Spec2Model ----
(***************************************************************************)
(* Model of driver.rs: an actix-web service with one Mutex<CsvData> shared *)
(* by four handlers (info, data, cmd, stream_csv).  Handlers run on worker *)
(* threads; every statement of a handler is one step of its task.          *)
(*                                                                         *)
(* Strings are TLA+ strings, built with \o exactly as the code builds them.*)
(* A JSON number is represented by an integer count of eighths (1/8), so   *)
(* that it is an exactly representable binary fraction and format!("{:.2}")*)
(* has a well-defined decimal rounding (ties to even).                     *)
(***************************************************************************)
EXTENDS Integers, Sequences, FiniteSets, TLC

\* ---------------------------------------------------------------- bounds
\* Number of clock ticks (seconds passing) explored.
MaxTicks == 1
\* Unix time at startup: a value whose successor has one more digit.
StartClock == 9
\* Number of successful set_temp requests explored.
MaxAppends == 11
\* Concurrent request tasks.
Procs == {1, 2}
\* The single task of the sequential specification.
SeqProcs == {1}
\* Temperatures (in eighths) sent by clients: 21.5, and 18.625 (a rounding tie).
Temps == {172}
SeqTemps == {172, 149}

\* ------------------------------------------------------ program constants
\* rows.len() > 10
Capacity == 10

VARIABLES
    headers,    \* CsvData.headers
    rows,       \* CsvData.rows (VecDeque, front = index 1)
    locked,     \* the Mutex around CsvData is held
    poisoned,   \* the Mutex is poisoned: a task panicked while holding it
    clock,      \* SystemTime::now() in seconds since the epoch
    pc,         \* position of each request task
    req,        \* the request each task is serving
    now,        \* cmd's local `now`
    csv,        \* data's local `csv` / stream_csv's local `stream`
    resp,       \* the HttpResponse each task has built
    hist,       \* history: every row ever in the buffer, in append order
    snap,       \* history: rows as they were when cmd last took the lock
    pushed,     \* history: the rows each request has pushed so far
    committed,  \* history: row of the last successful cmd that released the lock
    prevData,   \* history: body of the last /data read since the last mutation
    prevStream, \* history: body of the last /stream read since the last mutation
    order       \* history: temperatures of accepted commands, in lock order

vars == <<headers, rows, locked, poisoned, clock, pc, req, now, csv, resp,
          hist, snap, pushed, committed, prevData, prevStream, order>>

\* ------------------------------------------------------------ pure helpers
Last(s) == s[Len(s)]

Digit(d) == <<"0", "1", "2", "3", "4", "5", "6", "7", "8", "9">>[d + 1]

\* u64::to_string
RECURSIVE to_string(_)
to_string(n) == IF n < 10 THEN Digit(n) ELSE to_string(n \div 10) \o Digit(n % 10)

\* Mutant of format_2: one decimal place.
format_1(e) ==
    LET a == IF e < 0 THEN -e ELSE e
        t == (a * 10) \div 8
    IN  (IF e < 0 THEN "-" ELSE "") \o to_string(t \div 10) \o "." \o Digit(t % 10)

\* Hundredths nearest to e/8, ties to even (e >= 0).
Hundredths(e) ==
    LET q == (e * 100) \div 8
        r == (e * 100) % 8
    IN  IF r > 4 \/ (r = 4 /\ q % 2 = 1) THEN q + 1 ELSE q

\* format!("{:.2}", temp) for temp = e/8
format_2(e) ==
    LET a == IF e < 0 THEN -e ELSE e
        h == Hundredths(a)
    IN  (IF e < 0 THEN "-" ELSE "") \o to_string(h \div 100) \o "."
            \o Digit((h % 100) \div 10) \o Digit(h % 10)

\* <[_]>::join
RECURSIVE join(_, _)
join(s, sep) ==
    IF Len(s) = 0 THEN ""
    ELSE IF Len(s) = 1 THEN s[1]
    ELSE s[1] \o sep \o join(Tail(s), sep)

\* Mutant of latest_csv: rows.front() instead of rows.back().
latest_csv_front(hs, rs) ==
    (join(hs, ",") \o "\n") \o (IF Len(rs) > 0 THEN join(rs[1], ",") ELSE "")

\* CsvData::latest_csv
latest_csv(hs, rs) ==
    (join(hs, ",") \o "\n") \o (IF Len(rs) > 0 THEN join(Last(rs), ",") ELSE "")

\* Mutant of stream_rows: lines separated by newlines, none after the last.
RECURSIVE stream_rows_unterminated(_)
stream_rows_unterminated(rs) ==
    IF Len(rs) = 0 THEN ""
    ELSE IF Len(rs) = 1 THEN join(rs[1], ",")
    ELSE (join(rs[1], ",") \o "\n") \o stream_rows_unterminated(Tail(rs))

\* the loop of stream_csv: one line per row, front to back
RECURSIVE stream_rows(_)
stream_rows(rs) ==
    IF Len(rs) = 0 THEN ""
    ELSE (join(rs[1], ",") \o "\n") \o stream_rows(Tail(rs))

\* stream_csv's `stream`
stream_body(hs, rs) == (join(hs, ",") \o "\n") \o stream_rows(rs)

\* Mutant of new_row: the status field is left out.
new_row_without_status(t, temp) == <<to_string(t), format_2(temp)>>

\* the row built by cmd
new_row(t, temp) == <<to_string(t), format_2(temp), "ok">>

\* Mutant of push_back: a full buffer has its newest row overwritten.
push_over_tail(rs, row) ==
    IF Len(rs) >= Capacity THEN [rs EXCEPT ![Len(rs)] = row] ELSE Append(rs, row)

\* Mutant of push_back: a row equal to one already buffered is not added.
push_unique(rs, row) ==
    IF \E i \in 1 .. Len(rs) : rs[i] = row THEN rs ELSE Append(rs, row)

\* Mutant of push_back: push_front.
push_front(rs, row) == <<row>> \o rs

\* rows.push_back(row)
push_back(rs, row) == Append(rs, row)

\* Mutant of evict: the buffer is cleared on overflow.
evict_all(rs) == IF Len(rs) > Capacity THEN <<>> ELSE rs

\* Mutant of evict: the comparison is off by one.
evict_above_eleven(rs) == IF Len(rs) > Capacity + 1 THEN Tail(rs) ELSE rs

\* Mutant of evict: pop_back instead of pop_front.
evict_newest(rs) == IF Len(rs) > Capacity THEN SubSeq(rs, 1, Len(rs) - 1) ELSE rs

\* if rows.len() > 10 { rows.pop_front(); }
evict(rs) == IF Len(rs) > Capacity THEN Tail(rs) ELSE rs

\* ----------------------------------------------------------------- requests
\* params: Option<serde_json::Value>
NoParams == [present |-> FALSE, hasTemp |-> FALSE, numeric |-> FALSE, temp |-> 0]
EmptyObj == [present |-> TRUE, hasTemp |-> FALSE, numeric |-> FALSE, temp |-> 0]
StrTemp  == [present |-> TRUE, hasTemp |-> TRUE, numeric |-> FALSE, temp |-> 0]
NumTemp(t) == [present |-> TRUE, hasTemp |-> TRUE, numeric |-> TRUE, temp |-> t]

NoReq == [kind |-> "none", command |-> "", params |-> NoParams]
Get(k) == [kind |-> k, command |-> "", params |-> NoParams]
Post(c, ps) == [kind |-> "cmd", command |-> c, params |-> ps]

\* Mutant of is_set_temp: "reboot" is treated as set_temp too.
is_known_command(c) == c \in {"set_temp", "reboot"}

\* match payload.command.as_str() { "set_temp" => ..
is_set_temp(c) == c = "set_temp"

\* Mutant of has_temp: the value is not required to be a number.
has_any_temp(r) == r.params.present /\ r.params.hasTemp

\* params.get("temperature").and_then(|v| v.as_f64()) is Some
has_temp(r) == r.params.present /\ r.params.hasTemp /\ r.params.numeric

Accepted(r) == r.kind = "cmd" /\ is_set_temp(r.command) /\ has_temp(r)

Reads == {Get("info"), Get("data"), Get("stream")}
Rejected == {Post("set_temp", NoParams), Post("set_temp", EmptyObj),
             Post("set_temp", StrTemp), Post("reboot", NoParams)}
Commands(T) == {Post("set_temp", NumTemp(t)) : t \in T}
                 \cup {Post("reboot", NumTemp(t)) : t \in T} \cup Rejected

\* ---------------------------------------------------------------- responses
NoResp == [status |-> 0, ctype |-> "", body |-> "", json |-> <<>>]
Csv(b) == [status |-> 200, ctype |-> "text/csv", body |-> b, json |-> <<>>]
Json(st, j) == [status |-> st, ctype |-> "application/json", body |-> "", json |-> j]

\* main: device_info (the names are non-ASCII in the source; transliterated)
device_info == <<"de-v-fen", "geren", "zhi-fa", " wei-fuwu">>

Success == Json(200, <<"success">>)
MissingTemperature == Json(400, <<"error", "Missing temperature parameter">>)
UnknownCommand == Json(400, <<"error", "Unknown command">>)

\* --------------------------------------------------------------------- init
seed_row == <<to_string(StartClock), "25.0", "ok">>

Init ==
    /\ headers = <<"timestamp", "temperature", "status">>
    /\ rows = <<seed_row>>
    /\ locked = FALSE
    /\ poisoned = FALSE
    /\ clock = StartClock
    /\ pc = [p \in Procs |-> "idle"]
    /\ req = [p \in Procs |-> NoReq]
    /\ now = [p \in Procs |-> 0]
    /\ csv = [p \in Procs |-> ""]
    /\ resp = [p \in Procs |-> NoResp]
    /\ hist = <<seed_row>>
    /\ snap = <<>>
    /\ pushed = [p \in Procs |-> <<>>]
    /\ committed = seed_row
    /\ prevData = ""
    /\ prevStream = ""
    /\ order = <<>>

\* ------------------------------------------------------------------ actions
store == <<headers, rows>>
locals == <<now, csv, resp>>
ghosts == <<hist, snap, pushed, committed, prevData, prevStream, order>>

Entry(r) ==
    CASE r.kind = "info" -> "info"
      [] r.kind = "data" -> "data_lock"
      [] r.kind = "stream" -> "stream_lock"
      [] r.kind = "cmd" -> "cmd_lock"

\* Accepted requests in flight that have not pushed yet.
Pending == Cardinality({q \in Procs : Accepted(req[q]) /\ pushed[q] = <<>>})

\* The handler returns: its locals die and the task is free for the next request.
Finished(p) ==
    /\ pc' = [pc EXCEPT ![p] = "idle"]
    /\ req' = [req EXCEPT ![p] = NoReq]
    /\ now' = [now EXCEPT ![p] = 0]
    /\ csv' = [csv EXCEPT ![p] = ""]
    /\ resp' = [resp EXCEPT ![p] = NoResp]
    /\ pushed' = [pushed EXCEPT ![p] = <<>>]

\* A request arrives and is routed to its handler.
Start(p, R) ==
    /\ pc[p] = "idle"
    /\ \E r \in R :
        /\ Accepted(r) => (Len(hist) - 1) + Pending < MaxAppends
        /\ req' = [req EXCEPT ![p] = r]
        /\ pc' = [pc EXCEPT ![p] = Entry(r)]
    /\ UNCHANGED <<store, locked, clock, poisoned, locals, ghosts>>

\* SystemTime advances.
Tick ==
    /\ clock < StartClock + MaxTicks
    /\ clock' = clock + 1
    /\ UNCHANGED <<store, locked, poisoned, pc, req, locals, ghosts>>

\* Mutant of Info: the metadata carries the current number of rows.
InfoWithRowCount(p) ==
    /\ pc[p] = "info"
    /\ resp' = [resp EXCEPT ![p] = Json(200, Append(device_info, to_string(Len(rows))))]
    /\ pc' = [pc EXCEPT ![p] = "ret"]
    /\ UNCHANGED <<store, locked, clock, poisoned, req, now, csv, ghosts>>

\* info: HttpResponse::Ok().json(&data.device_info)
Info(p) ==
    /\ pc[p] = "info"
    /\ resp' = [resp EXCEPT ![p] = Json(200, device_info)]
    /\ pc' = [pc EXCEPT ![p] = "ret"]
    /\ UNCHANGED <<store, locked, clock, poisoned, req, now, csv, ghosts>>

\* Mutant of DataLock: the read does not wait for the lock.
DataLockBarging(p) ==
    /\ pc[p] = "data_lock"
    /\ locked' = TRUE
    /\ pc' = [pc EXCEPT ![p] = "data_read"]
    /\ UNCHANGED <<store, clock, poisoned, req, locals, ghosts>>

\* data: data.csv_data.lock()
DataLock(p) ==
    /\ pc[p] = "data_lock"
    /\ ~locked /\ ~poisoned
    /\ locked' = TRUE
    /\ pc' = [pc EXCEPT ![p] = "data_read"]
    /\ UNCHANGED <<store, clock, poisoned, req, locals, ghosts>>

\* Mutant of DataRead: the row read is taken out of the buffer (pop_back).
DataReadTakes(p) ==
    /\ pc[p] = "data_read"
    /\ csv' = [csv EXCEPT ![p] = latest_csv(headers, rows)]
    /\ rows' = IF Len(rows) > 0 THEN SubSeq(rows, 1, Len(rows) - 1) ELSE rows
    /\ locked' = FALSE
    /\ prevData' = csv'[p]
    /\ pc' = [pc EXCEPT ![p] = "data_resp"]
    /\ UNCHANGED <<headers, clock, poisoned, req, now, resp, hist, order, snap, pushed, committed, prevStream>>

\* data: .latest_csv(); the temporary guard is dropped at the end of the statement
DataRead(p) ==
    /\ pc[p] = "data_read"
    /\ csv' = [csv EXCEPT ![p] = latest_csv(headers, rows)]
    /\ locked' = FALSE
    /\ prevData' = csv'[p]
    /\ pc' = [pc EXCEPT ![p] = "data_resp"]
    /\ UNCHANGED <<store, clock, poisoned, req, now, resp, hist, order, snap, pushed, committed, prevStream>>

\* data: HttpResponse::Ok().insert_header(..).body(csv)
DataRespond(p) ==
    /\ pc[p] = "data_resp"
    /\ resp' = [resp EXCEPT ![p] = Csv(csv[p])]
    /\ pc' = [pc EXCEPT ![p] = "ret"]
    /\ UNCHANGED <<store, locked, clock, poisoned, req, now, csv, ghosts>>

\* stream_csv: data.csv_data.lock()
StreamLock(p) ==
    /\ pc[p] = "stream_lock"
    /\ ~locked /\ ~poisoned
    /\ locked' = TRUE
    /\ pc' = [pc EXCEPT ![p] = "stream_build"]
    /\ UNCHANGED <<store, clock, poisoned, req, locals, ghosts>>

\* stream_csv: build `stream` from the headers and every row
StreamBuild(p) ==
    /\ pc[p] = "stream_build"
    /\ csv' = [csv EXCEPT ![p] = stream_body(headers, rows)]
    /\ prevStream' = csv'[p]
    /\ pc' = [pc EXCEPT ![p] = "stream_resp"]
    /\ UNCHANGED <<store, locked, clock, poisoned, req, now, resp, hist, order, snap, pushed, committed, prevData>>

\* stream_csv: Ok(HttpResponse::Ok()...body(stream)), the guard still alive
StreamRespond(p) ==
    /\ pc[p] = "stream_resp"
    /\ resp' = [resp EXCEPT ![p] = Csv(csv[p])]
    /\ pc' = [pc EXCEPT ![p] = "stream_drop"]
    /\ UNCHANGED <<store, locked, clock, poisoned, req, now, csv, ghosts>>

\* stream_csv: the guard `csv_data` is dropped and the function returns
StreamDrop(p) ==
    /\ pc[p] = "stream_drop"
    /\ locked' = FALSE
    /\ Finished(p)
    /\ UNCHANGED <<store, clock, poisoned, hist, order, snap, committed, prevData, prevStream>>

\* Mutant of CmdLock: the command does not wait for the lock.
CmdLockBarging(p) ==
    /\ pc[p] = "cmd_lock"
    /\ locked' = TRUE
    /\ snap' = rows
    /\ order' = IF Accepted(req[p]) THEN Append(order, req[p].params.temp) ELSE order
    /\ pc' = [pc EXCEPT ![p] = "cmd_now"]
    /\ UNCHANGED <<store, clock, poisoned, req, locals, hist, pushed, committed, prevData, prevStream>>

\* cmd: data.csv_data.lock()
CmdLock(p) ==
    /\ pc[p] = "cmd_lock"
    /\ ~locked /\ ~poisoned
    /\ locked' = TRUE
    /\ snap' = rows
    /\ order' = IF Accepted(req[p]) THEN Append(order, req[p].params.temp) ELSE order
    /\ pc' = [pc EXCEPT ![p] = "cmd_now"]
    /\ UNCHANGED <<store, clock, poisoned, req, locals, hist, pushed, committed, prevData, prevStream>>

\* cmd: let now = SystemTime::now().duration_since(UNIX_EPOCH).unwrap().as_secs()
CmdNow(p) ==
    /\ pc[p] = "cmd_now"
    /\ clock >= 0
    /\ now' = [now EXCEPT ![p] = clock]
    /\ pc' = [pc EXCEPT ![p] = "cmd_match"]
    /\ UNCHANGED <<store, locked, clock, poisoned, req, csv, resp, ghosts>>

\* cmd: "set_temp" with a numeric temperature: build the row and push it
CmdPush(p) ==
    /\ pc[p] = "cmd_match"
    /\ is_set_temp(req[p].command)
    /\ has_temp(req[p])
    /\ LET row == new_row(now[p], req[p].params.temp) IN
        /\ rows' = push_back(rows, row)
        /\ hist' = Append(hist, row)
        /\ pushed' = [pushed EXCEPT ![p] = Append(@, row)]
    /\ prevData' = ""
    /\ prevStream' = ""
    /\ pc' = [pc EXCEPT ![p] = "cmd_evict"]
    /\ UNCHANGED <<headers, locked, clock, poisoned, req, locals, snap, order, committed>>

\* cmd: if csv_data.rows.len() > 10 { csv_data.rows.pop_front(); }
CmdEvict(p) ==
    /\ pc[p] = "cmd_evict"
    /\ rows' = evict(rows)
    /\ pc' = [pc EXCEPT ![p] = "cmd_ok"]
    /\ UNCHANGED <<headers, locked, clock, poisoned, req, locals, ghosts>>

\* cmd: return HttpResponse::Ok().json({"status": "success"})
CmdOk(p) ==
    /\ pc[p] = "cmd_ok"
    /\ resp' = [resp EXCEPT ![p] = Success]
    /\ pc' = [pc EXCEPT ![p] = "cmd_drop"]
    /\ UNCHANGED <<store, locked, clock, poisoned, req, now, csv, ghosts>>

\* cmd: "set_temp" without a numeric temperature
CmdMissing(p) ==
    /\ pc[p] = "cmd_match"
    /\ is_set_temp(req[p].command)
    /\ ~has_temp(req[p])
    /\ resp' = [resp EXCEPT ![p] = MissingTemperature]
    /\ pc' = [pc EXCEPT ![p] = "cmd_drop"]
    /\ UNCHANGED <<store, locked, clock, poisoned, req, now, csv, ghosts>>

\* Mutant of CmdUnknown: the rejected command is recorded as a row.
CmdUnknownRecords(p) ==
    /\ pc[p] = "cmd_match"
    /\ ~is_set_temp(req[p].command)
    /\ rows' = push_back(rows, <<to_string(now[p]), "0.00", "error">>)
    /\ resp' = [resp EXCEPT ![p] = UnknownCommand]
    /\ pc' = [pc EXCEPT ![p] = "cmd_drop"]
    /\ UNCHANGED <<headers, locked, clock, poisoned, req, now, csv, ghosts>>

\* cmd: any other command
CmdUnknown(p) ==
    /\ pc[p] = "cmd_match"
    /\ ~is_set_temp(req[p].command)
    /\ resp' = [resp EXCEPT ![p] = UnknownCommand]
    /\ pc' = [pc EXCEPT ![p] = "cmd_drop"]
    /\ UNCHANGED <<store, locked, clock, poisoned, req, now, csv, ghosts>>

\* cmd: the guard `csv_data` is dropped and the function returns
CmdDrop(p) ==
    /\ pc[p] = "cmd_drop"
    /\ locked' = FALSE
    /\ committed' = IF pushed[p] # <<>> THEN Last(pushed[p]) ELSE committed
    /\ Finished(p)
    /\ UNCHANGED <<store, clock, poisoned, hist, order, snap, prevData, prevStream>>

\* info, data: the response built by the last statement is returned.
Return(p) ==
    /\ pc[p] = "ret"
    /\ Finished(p)
    /\ UNCHANGED <<store, locked, clock, poisoned, hist, order, snap, committed, prevData, prevStream>>

\* cmd: duration_since(UNIX_EPOCH) is Err when the system clock is before the
\* epoch; unwrap() panics, and unwinding drops the guard, which poisons the Mutex.
CmdNowPanics(p) ==
    /\ pc[p] = "cmd_now"
    /\ clock < 0
    /\ poisoned' = TRUE
    /\ locked' = FALSE
    /\ pc' = [pc EXCEPT ![p] = "panicked"]
    /\ UNCHANGED <<store, clock, req, locals, ghosts>>

\* data, cmd, stream_csv: lock() on a poisoned Mutex is Err and unwrap() panics;
\* the guard inside the error is dropped at once.
LockPoisoned(p) ==
    /\ pc[p] \in {"data_lock", "cmd_lock", "stream_lock"}
    /\ ~locked /\ poisoned
    /\ pc' = [pc EXCEPT ![p] = "panicked"]
    /\ UNCHANGED <<store, locked, poisoned, clock, req, locals, ghosts>>

\* The panicking handler is torn down without a response.
Aborted(p) ==
    /\ pc[p] = "panicked"
    /\ Finished(p)
    /\ UNCHANGED <<store, locked, poisoned, clock, hist, order, snap, committed, prevData, prevStream>>

\* The system clock is set to a time before the Unix epoch.
ClockSetBack ==
    /\ clock >= 0
    /\ clock' = -1
    /\ UNCHANGED <<store, locked, poisoned, pc, req, locals, ghosts>>

Handler(p) ==
    \/ Info(p)
    \/ DataLock(p) \/ DataRead(p) \/ DataRespond(p)
    \/ StreamLock(p) \/ StreamBuild(p) \/ StreamRespond(p) \/ StreamDrop(p)
    \/ CmdLock(p) \/ CmdNow(p) \/ CmdPush(p) \/ CmdEvict(p) \/ CmdOk(p)
    \/ CmdMissing(p) \/ CmdUnknown(p) \/ CmdDrop(p)
    \/ Return(p)

\* Any interleaving of requests on the worker tasks.
Next ==
    \/ Tick
    \/ \E p \in Procs : Start(p, Reads \cup Commands(Temps))
    \/ \E p \in Procs : Handler(p)

Spec == Init /\ [][Next]_vars

SeqRequests == (Commands(SeqTemps) \ Rejected) \cup {Get("stream")}

\* One client: accepted set_temp commands with varying temperatures, one after
\* another, and reads of the buffer in between.
NextSeq ==
    \/ \E p \in SeqProcs : Start(p, SeqRequests)
    \/ \E p \in SeqProcs :
        \/ CmdLock(p) \/ CmdNow(p) \/ CmdPush(p) \/ CmdEvict(p) \/ CmdOk(p)
        \/ CmdUnknown(p) \/ CmdDrop(p)
        \/ StreamLock(p) \/ StreamBuild(p) \/ StreamRespond(p) \/ StreamDrop(p)

SpecSeq == Init /\ [][NextSeq]_vars

PanicRequests == {Get("data"), Get("stream"), Post("set_temp", NumTemp(172))}

\* As Next for data, stream and accepted commands, in an environment where the
\* system clock may be set before the epoch.
NextPanic ==
    \/ ClockSetBack
    \/ \E p \in Procs : Start(p, PanicRequests)
    \/ \E p \in Procs :
        \/ DataLock(p) \/ DataRead(p) \/ DataRespond(p) \/ Return(p)
        \/ StreamLock(p) \/ StreamBuild(p) \/ StreamRespond(p) \/ StreamDrop(p)
        \/ CmdLock(p) \/ CmdNow(p) \/ CmdPush(p) \/ CmdEvict(p) \/ CmdOk(p) \/ CmdDrop(p)
        \/ CmdNowPanics(p) \/ LockPoisoned(p) \/ Aborted(p)

SpecPanic == Init /\ [][NextPanic]_vars

\* A step of the handler on task p that does not wait for the Mutex.
Running(p) ==
    \/ DataRead(p) \/ DataRespond(p) \/ Return(p)
    \/ StreamBuild(p) \/ StreamRespond(p) \/ StreamDrop(p)
    \/ CmdNow(p) \/ CmdPush(p) \/ CmdEvict(p) \/ CmdOk(p) \/ CmdDrop(p)
    \/ CmdNowPanics(p) \/ LockPoisoned(p) \/ Aborted(p)

\* lock() on task p returns the guard.
Acquire(p) == DataLock(p) \/ StreamLock(p) \/ CmdLock(p)

\* Fair scheduling: a handler that can run does run, and a handler waiting in
\* lock() gets the Mutex if it is free again and again.
FairScheduling ==
    \A p \in Procs : WF_vars(Running(p)) /\ SF_vars(Acquire(p))

SpecPanicFair == SpecPanic /\ FairScheduling

ConcurrentCommands == {Post("set_temp", NumTemp(t)) : t \in SeqTemps}

\* Two clients sending accepted set_temp commands with varying temperatures.
NextCmds ==
    \/ \E p \in Procs : Start(p, ConcurrentCommands)
    \/ \E p \in Procs :
        CmdLock(p) \/ CmdNow(p) \/ CmdPush(p) \/ CmdEvict(p) \/ CmdOk(p) \/ CmdDrop(p)

SpecCmds == Init /\ [][NextCmds]_vars

\* ------------------------------------------------------------ properties
Min(a, b) == IF a < b THEN a ELSE b

\* The last k elements of s.
LastK(s, k) == SubSeq(s, Len(s) - k + 1, Len(s))

Front(s) == SubSeq(s, 1, Len(s) - 1)

HeaderLine == "timestamp,temperature,status"

RowLine(r) == r[1] \o "," \o r[2] \o "," \o r[3]

\* One line per row, written from the newest row backwards.
RECURSIVE LinesOf(_)
LinesOf(s) == IF s = <<>> THEN "" ELSE LinesOf(Front(s)) \o (RowLine(Last(s)) \o "\n")

\* What "{:.2}" prints for the temperatures sent (21.5 and 18.625).
TwoDecimals(t) == CASE t = 172 -> "21.50" [] t = 149 -> "18.62"

\* C1: whenever the buffer lock is not held, the buffer has at most 10 rows.
CapacityInvariant == ~locked => Len(rows) <= 10

CapacityWitness == ~locked /\ Len(rows) = 10 /\ Len(hist) = 12

\* C2: when cmd has appended (it holds the lock and is past the eviction), a
\* buffer that held 10 rows has lost exactly its head and kept the other 9 in
\* order before the new row; a buffer that held fewer has lost nothing.
FifoEviction ==
    \A p \in Procs :
        pc[p] \in {"cmd_ok", "cmd_drop"} /\ pushed[p] # <<>> =>
            /\ Len(pushed[p]) = 1
            /\ Len(snap) <= 10
            /\ Len(snap) = 10 => rows = Tail(snap) \o pushed[p]
            /\ Len(snap) < 10 => rows = snap \o pushed[p]

FifoEvictionWitness ==
    \E p \in Procs :
        /\ pc[p] = "cmd_drop" /\ pushed[p] # <<>>
        /\ Len(snap) = 10 /\ snap[1] # snap[2] /\ snap[10] # pushed[p][1]
        /\ rows = Tail(snap) \o pushed[p]

\* C3: after n accepted set_temp commands (none in progress), the buffer is
\* the last min(10, n+1) rows of <<seed, r1, ..., rn>>, in that order.
OverflowKeepsLastTen ==
    ~locked => /\ hist[1] = seed_row
               /\ rows = LastK(hist, Min(10, Len(hist)))

OverflowWitness ==
    /\ ~locked /\ Len(hist) = 12
    /\ rows = SubSeq(hist, 3, 12)
    /\ hist[2] # hist[3] /\ hist[11] # hist[12]

\* C4: the body GET /data reads is the header line, a newline and the fields
\* of the row appended by the last accepted command that released the lock
\* (the seed row if there was none), with no trailing newline; that body is
\* what the 200 response carries.
DataReadsCommitted ==
    \A p \in Procs :
        pc[p] = "data_read" /\ pc'[p] = "data_resp" =>
            csv'[p] = (HeaderLine \o "\n") \o RowLine(committed)

DataRespondsCsv ==
    \A p \in Procs :
        pc[p] = "ret" /\ req[p].kind = "data" => resp[p] = Csv(csv[p])

LatestReflectsLastAppend == [][DataReadsCommitted]_vars /\ []DataRespondsCsv

LatestWitness ==
    \E p \in Procs :
        /\ pc[p] = "ret" /\ req[p].kind = "data"
        /\ committed = <<"10", "21.50", "ok">>
        /\ resp[p].body = "timestamp,temperature,status\n10,21.50,ok"

\* C5: the body GET /stream builds, while it holds the lock, is the header
\* line followed by one newline-terminated line per row of the buffer, and
\* the rows are a suffix of the append history: oldest first, newest last.
StreamListsOldestFirst ==
    \A p \in Procs :
        pc[p] = "stream_drop" =>
            /\ rows = LastK(hist, Len(rows))
            /\ resp[p].status = 200
            /\ resp[p].body = (HeaderLine \o "\n") \o LinesOf(LastK(hist, Len(rows)))

StreamWitness ==
    \E p \in Procs :
        /\ pc[p] = "stream_drop"
        /\ rows = <<seed_row, <<"9", "21.50", "ok">>, <<"9", "18.62", "ok">>>>
        /\ resp[p].body =
             "timestamp,temperature,status\n9,25.0,ok\n9,21.50,ok\n9,18.62,ok\n"

\* C6: an accepted set_temp command answers 200 "success" having appended
\* exactly the row [time read by the handler, temperature with 2 decimals,
\* "ok"] at the tail; a GET /data with no later append shows that row.
AcceptedAppends ==
    /\ \A p \in Procs :
        /\ pc[p] = "cmd_drop" /\ req[p].command = "set_temp"
             /\ req[p].params.present /\ req[p].params.hasTemp /\ req[p].params.numeric =>
            /\ resp[p].status = 200 /\ resp[p].json = <<"success">>
            /\ Len(rows) = Min(10, Len(snap) + 1)
            /\ Last(rows) = <<to_string(now[p]), TwoDecimals(req[p].params.temp), "ok">>
            /\ now[p] \in StartClock .. clock
            /\ pushed[p] = <<Last(rows)>>
    /\ prevData # "" => prevData = (HeaderLine \o "\n") \o RowLine(Last(hist))

AcceptedWitness ==
    \E p \in Procs :
        /\ pc[p] = "ret" /\ req[p].kind = "data"
        /\ Len(hist) = 2 /\ hist[2] = <<"10", "21.50", "ok">>
        /\ prevData = resp[p].body
        /\ resp[p].body = "timestamp,temperature,status\n10,21.50,ok"

\* C7: set_temp whose params is absent, lacks temperature, or has a
\* non-numeric temperature answers 400 "Missing temperature parameter" and
\* leaves headers and rows as they were.
MissingRejected ==
    \A p \in Procs :
        pc[p] = "cmd_drop" /\ req[p].command = "set_temp"
            /\ req[p].params \in {NoParams, EmptyObj, StrTemp} =>
            /\ resp[p].status = 400
            /\ resp[p].json = <<"error", "Missing temperature parameter">>
            /\ rows = snap /\ pushed[p] = <<>>
            /\ headers = <<"timestamp", "temperature", "status">>

MissingWitness ==
    \E p \in Procs :
        /\ pc[p] = "cmd_drop" /\ req[p] = Post("set_temp", StrTemp)
        /\ resp[p].status = 400 /\ Len(rows) = 10 /\ rows = snap

\* C8: any command other than set_temp, whatever its params, answers 400
\* "Unknown command" and leaves headers and rows as they were.
UnknownRejected ==
    \A p \in Procs :
        pc[p] = "cmd_drop" /\ req[p].command # "set_temp" =>
            /\ resp[p].status = 400
            /\ resp[p].json = <<"error", "Unknown command">>
            /\ rows = snap /\ pushed[p] = <<>>
            /\ headers = <<"timestamp", "temperature", "status">>

UnknownWitness ==
    \E p \in Procs :
        /\ pc[p] = "cmd_drop" /\ req[p] = Post("reboot", NumTemp(172))
        /\ resp[p].status = 400 /\ Len(rows) = 10 /\ rows = snap

\* C9: a cmd request pushes one row when it answers 200 and none when it
\* answers 400, never more; and every step that changes headers or rows is a
\* step of a cmd handler (info, data and stream never change them).
AppendsMatchStatus ==
    \A p \in Procs :
        /\ Len(pushed[p]) <= 1
        /\ req[p].kind # "cmd" => pushed[p] = <<>>
        /\ pc[p] = "cmd_drop" =>
            \/ /\ resp[p].status = 200 /\ Len(pushed[p]) = 1
               /\ rows = LastK(snap \o pushed[p], Min(10, Len(snap) + 1))
            \/ resp[p].status = 400 /\ Len(pushed[p]) = 0 /\ rows = snap

OnlyCmdMutates ==
    (headers' # headers \/ rows' # rows) =>
        \E p \in Procs : req[p].kind = "cmd" /\ pc'[p] # pc[p]

HistFollowsRows == rows' # rows => Len(hist') <= Len(hist) + 1

CmdIsOnlyMutator ==
    []AppendsMatchStatus /\ [][OnlyCmdMutates /\ HistFollowsRows]_vars

CmdMutatorWitness ==
    \E p, q \in Procs :
        /\ pc[p] = "cmd_drop" /\ resp[p].status = 200 /\ Len(pushed[p]) = 1
        /\ pc[q] = "ret" /\ req[q].kind = "data"
        /\ Len(rows) = 10 /\ Len(hist) = 11

\* C10: a /data read returns the body of the previous /data read, and a
\* /stream read the body of the previous /stream read, when no append took
\* effect in between.
ReadsRepeat ==
    \A p \in Procs :
        /\ pc[p] = "data_read" /\ pc'[p] = "data_resp" /\ prevData # "" =>
                csv'[p] = prevData
        /\ pc[p] = "stream_build" /\ pc'[p] = "stream_resp" /\ prevStream # "" =>
                csv'[p] = prevStream

IdempotentReads == [][ReadsRepeat]_vars

IdempotentWitness ==
    \E p, q \in Procs :
        /\ p # q /\ Len(hist) > 1
        /\ pc[p] = "ret" /\ req[p].kind = "data"
        /\ pc[q] = "data_resp" /\ csv[q] = resp[p].body /\ prevData = csv[q]

\* The positions at which a handler owns the MutexGuard.
Holding(p) ==
    pc[p] \in {"data_read", "stream_build", "stream_resp", "stream_drop",
               "cmd_now", "cmd_match", "cmd_evict", "cmd_ok", "cmd_drop"}

\* C11: at most one handler owns the guard, the Mutex is held exactly when one
\* does; a data or stream handler that owns it sees a buffer of at most 10
\* rows with no append in progress, and the body it reads is of that buffer.
ReadsSeeWholeWrites ==
    \A p \in Procs :
        /\ pc[p] \in {"data_read", "stream_build"} =>
            /\ Len(rows) <= 10
            /\ \A q \in Procs : pc[q] \notin {"cmd_match", "cmd_evict", "cmd_ok"}
        /\ pc[p] = "stream_resp" => csv[p] = (HeaderLine \o "\n") \o LinesOf(rows)

MutualExclusion ==
    /\ Cardinality({p \in Procs : Holding(p)}) <= 1
    /\ locked <=> \E p \in Procs : Holding(p)
    /\ ReadsSeeWholeWrites

MutualExclusionWitness ==
    \E p, q \in Procs :
        /\ pc[p] = "cmd_evict" /\ Len(rows) = 11
        /\ pc[q] \in {"data_lock", "stream_lock"}

\* C12: GET /info answers 200 with the same four metadata fields whatever the
\* buffer holds and whatever the other task is doing, it runs whether or not
\* the lock is held, and its step changes neither the buffer nor the lock.
InfoIsFixed ==
    \A p \in Procs :
        pc[p] = "ret" /\ req[p].kind = "info" =>
            /\ resp[p].status = 200
            /\ resp[p].json = <<"de-v-fen", "geren", "zhi-fa", " wei-fuwu">>

InfoTouchesNothing ==
    \A p \in Procs :
        pc[p] = "info" =>
            /\ ENABLED Info(p)
            /\ pc'[p] # pc[p] => UNCHANGED <<headers, rows, locked, poisoned>>

InfoStability == []InfoIsFixed /\ [][InfoTouchesNothing]_vars

InfoWitness ==
    \E p, q \in Procs :
        /\ pc[p] = "ret" /\ req[p].kind = "info" /\ resp[p].status = 200
        /\ pc[q] = "cmd_evict" /\ Len(rows) = 11

\* C13: GET /data and GET /stream always answer 200: no such request ends in
\* a panic, and every response they build has status 200, also after a command
\* ended abnormally while holding the lock.
ReadsNeverFail ==
    \A p \in Procs :
        req[p].kind \in {"data", "stream"} =>
            /\ pc[p] # "panicked"
            /\ resp[p] # NoResp => resp[p].status = 200

\* C14: a handler that uses the store has released the lock by the time it
\* has built its response, on every path of data, cmd and stream.
ReleasedBeforeResponse ==
    \A p \in Procs :
        req[p].kind \in {"data", "cmd", "stream"} /\ resp[p] # NoResp => ~Holding(p)

\* C15: every row of the buffer has as many fields as there are headers, three.
ArityInvariant ==
    /\ Len(headers) = 3
    /\ \A i \in 1 .. Len(rows) : Len(rows[i]) = Len(headers)

ArityWitness ==
    /\ Len(rows) = 11 /\ Len(rows[11]) = 3
    /\ rows[1] = <<"9", "25.0", "ok">> /\ rows[11] = <<"10", "21.50", "ok">>

\* C16: no step changes headers; a step that changes rows either adds one row
\* at the tail or removes the head, and leaves every other row as it was.
RowsOnlyGrowAtTailShrinkAtHead ==
    /\ headers' = headers
    /\ rows' # rows =>
        \/ Len(rows') = Len(rows) + 1 /\ SubSeq(rows', 1, Len(rows)) = rows
        \/ Len(rows') = Len(rows) - 1 /\ rows' = SubSeq(rows, 2, Len(rows))

RowsImmutable == [][RowsOnlyGrowAtTailShrinkAtHead]_vars

RowsImmutableWitness ==
    \E p \in Procs :
        /\ pc[p] = "cmd_ok" /\ Len(snap) = 10 /\ Len(rows) = 10
        /\ snap[10] # pushed[p][1]
        /\ SubSeq(rows, 1, 9) = SubSeq(snap, 2, 10)

\* C18: the buffer always holds at least one row, and no /data body is the
\* header line alone.
NeverEmpty ==
    /\ Len(rows) >= 1
    /\ \A p \in Procs : pc[p] \in {"data_resp", "ret"} /\ req[p].kind = "data" =>
            csv[p] # (HeaderLine \o "\n")

NeverEmptyWitness ==
    \E p \in Procs :
        /\ pc[p] = "data_resp" /\ Len(hist) = 12 /\ Len(rows) = 10
        /\ csv[p] = (HeaderLine \o "\n") \o RowLine(hist[12])

\* The rows that the commands of `order` append one after another to the seed.
RowsInLockOrder ==
    <<seed_row>> \o [i \in 1 .. Len(order) |->
                        <<to_string(StartClock), TwoDecimals(order[i]), "ok">>]

\* C19: when no command holds the lock, the buffer is the last min(10, N+1)
\* rows of the seed followed by one row per accepted command in the order the
\* commands took the lock; a command that has built its 200 response and is
\* about to release the lock has its own row at the tail.
NoLostAppends ==
    /\ ~locked => rows = LastK(RowsInLockOrder, Min(10, Len(order) + 1))
    /\ \A p \in Procs :
        pc[p] = "cmd_drop" /\ resp[p].status = 200 =>
            /\ Last(rows) = <<to_string(now[p]), TwoDecimals(req[p].params.temp), "ok">>
            /\ Len(hist) = Len(order) + 1

NoLostAppendsWitness ==
    \E p, q \in Procs :
        /\ p # q /\ pc[p] = "cmd_drop" /\ pc[q] = "cmd_lock"
        /\ Len(order) = 10 /\ order[9] # order[10] /\ order[1] # order[2]
        /\ req[q].params.temp # req[p].params.temp

\* The number a timestamp field was printed from (u64::to_string inverted).
TsTable == {<<to_string(n), n>> : n \in 0 .. StartClock + MaxTicks}

ParseTs(str) == (CHOOSE e \in TsTable : e[1] = str)[2]

\* C20: with a clock that never goes back, the timestamps of the rows in the
\* buffer never decrease from head to tail (each is at most its successor).
TimestampsOrdered ==
    \A i \in 1 .. Len(rows) - 1 : ParseTs(rows[i][1]) <= ParseTs(rows[i + 1][1])

TimestampsWitness ==
    \E p, q \in Procs :
        /\ p # q /\ pc[p] = "cmd_drop" /\ pc[q] = "cmd_lock" /\ Accepted(req[q])
        /\ Len(rows) = 10 /\ rows[1][1] = "9" /\ rows[10][1] = "10" /\ Len(hist) = 11

\* C17: under fair scheduling every request that has started gets its response
\* built and returned, and every handler waiting for the lock comes to own it.
EveryRequestReturns ==
    \A p \in Procs :
        /\ (pc[p] # "idle") ~> (resp[p] # NoResp)
        /\ (pc[p] \in {"data_lock", "stream_lock", "cmd_lock"}) ~> Holding(p)

\* Progress of the same requests as long as the clock is not set before the epoch.
ReturnsWhileClockValid == [](clock >= 0) => EveryRequestReturns

====
